---- MODULE Spec2Model ----
(***************************************************************************)
(* compare_tls.py: two HTTPS GETs to a fingerprinting echo endpoint, one   *)
(* with requests and one with noble-tls, each followed by a printed report *)
(* of the fingerprint fields and a heuristic verdict.                      *)
(*                                                                         *)
(* Python values.  A str is a sequence of characters, a character being a  *)
(* one-character TLA+ string (EmDash names U+2014).  Python values are     *)
(* tagged records: None is [t |-> "null"], a str is [t |-> "str", s |-> _], *)
(* a dict is [t |-> "obj", o |-> function from keys to values], any other  *)
(* JSON value (a list) is [t |-> "arr"].                                   *)
(***************************************************************************)
EXTENDS Integers, Sequences, FiniteSets, TLC

VARIABLES
    pc,          \* position of main(): "start", "A_get", "B_refresh", "B_get", "done", "off"
    noble_tls,   \* module global set by the import guard: "module" or "None"
    inflight,    \* set of network operations in flight
    attempts,    \* how many times each network operation was started
    finished,    \* sequence of network operations, in the order they completed
    outA,        \* what the conventional GET came back with
    outR,        \* what the profile refresh came back with
    outB,        \* what the emulating GET came back with
    a,           \* main()'s local a (the conventional record), None before
    b,           \* main()'s local b (the emulating record), None before
    stdout,      \* lines written to standard output
    stderr,      \* lines written to the diagnostic stream
    exitCode,    \* process exit code, -1 while running
    vpc,         \* verdict harness: "off", "input", "applied"
    vua,         \* verdict harness: argument ua
    vja3,        \* verdict harness: argument ja3
    vres         \* verdict harness: returned message

mainVars == <<pc, noble_tls, inflight, attempts, finished, outA, outR, outB,
              a, b, stdout, stderr, exitCode>>
verdictVars == <<vpc, vua, vja3, vres>>
vars == <<pc, noble_tls, inflight, attempts, finished, outA, outR, outB,
          a, b, stdout, stderr, exitCode, vpc, vua, vja3, vres>>

---------------------------------------------------------------------------
(* Bounds of the model *)

\* longest run of filler characters put around a keyword / beyond the width
MaxPad == 1

---------------------------------------------------------------------------
(* Strings *)

None == [t |-> "null"]
Str(s) == [t |-> "str", s |-> s]

EmDash == "U+2014"

UpperCase == <<"A","B","C","D","E","F","G","H","I","J","K","L","M",
               "N","O","P","Q","R","S","T","U","V","W","X","Y","Z">>
LowerCase == <<"a","b","c","d","e","f","g","h","i","j","k","l","m",
               "n","o","p","q","r","s","t","u","v","w","x","y","z">>

\* str.lower(), character by character
LowerChar(c) ==
    IF \E i \in 1..26 : UpperCase[i] = c
    THEN LowerCase[CHOOSE i \in 1..26 : UpperCase[i] = c]
    ELSE c
Lower(s) == [i \in 1..Len(s) |-> LowerChar(s[i])]

UpperChar(c) ==
    IF \E i \in 1..26 : LowerCase[i] = c
    THEN UpperCase[CHOOSE i \in 1..26 : LowerCase[i] = c]
    ELSE c
Upper(s) == [i \in 1..Len(s) |-> UpperChar(s[i])]
Capitalized(s) == [i \in 1..Len(s) |-> IF i = 1 THEN UpperChar(s[i]) ELSE s[i]]

\* c * n
Rep(c, n) == [i \in 1..n |-> c]

\* sub in s
Contains(s, sub) ==
    \E i \in 1..(Len(s) + 1) :
        /\ i + Len(sub) - 1 <= Len(s)
        /\ SubSeq(s, i, i + Len(sub) - 1) = sub

\* s[:n]
Take(s, n) == SubSeq(s, 1, IF Len(s) < n THEN Len(s) ELSE n)

w_chrome   == <<"c","h","r","o","m","e">>
w_chromium == <<"c","h","r","o","m","i","u","m">>
w_edg      == <<"e","d","g">>
w_firefox  == <<"f","i","r","e","f","o","x">>
w_safari   == <<"s","a","f","a","r","i">>
w_ios      == <<"i","o","s">>
w_android  == <<"a","n","d","r","o","i","d">>

---------------------------------------------------------------------------
(* verdict(ua, ja3) *)

MsgBrowserOk       == "-> Coherence probable si le client est un vrai navigateur."
MsgBrowserMismatch == "!! Possible mismatch UA<->JA3 (empreinte non navigateur)."
MsgDeclaredOk      == "-> Coherence probable si l'empreinte est bien celle du client declare."
MsgDeclaredMismatch == "!! Possible mismatch UA<->JA3."
MsgNeutral         == "i Impossible d'evaluer la coherence sans base de JA3 connue."

\* (ua or "")
OrEmpty(ua) == IF ua = None \/ ua = Str(<<>>) THEN <<>> ELSE ua.s

\* ja3 and "," in ja3 and "-" in ja3
Ja3Plausible(ja3) ==
    /\ ja3 # None
    /\ ja3 # Str(<<>>)
    /\ Contains(ja3.s, <<",">>)
    /\ Contains(ja3.s, <<"-">>)

\* verdict() testing the firefox/safari/ios/android family first
verdict_FamilyBFirst(ua, ja3) ==
    LET ua_l == Lower(OrEmpty(ua)) IN
    IF \/ Contains(ua_l, w_firefox) \/ Contains(ua_l, w_safari)
       \/ Contains(ua_l, w_ios) \/ Contains(ua_l, w_android)
    THEN IF Ja3Plausible(ja3) THEN MsgDeclaredOk ELSE MsgDeclaredMismatch
    ELSE IF Contains(ua_l, w_chrome) \/ Contains(ua_l, w_chromium) \/ Contains(ua_l, w_edg)
    THEN IF Ja3Plausible(ja3) THEN MsgBrowserOk ELSE MsgBrowserMismatch
    ELSE MsgNeutral

\* verdict() matching the user agent as given, not lowercased
verdict_NoLower(ua, ja3) ==
    LET ua_l == OrEmpty(ua) IN
    IF Contains(ua_l, w_chrome) \/ Contains(ua_l, w_chromium) \/ Contains(ua_l, w_edg)
    THEN IF Ja3Plausible(ja3) THEN MsgBrowserOk ELSE MsgBrowserMismatch
    ELSE IF \/ Contains(ua_l, w_firefox) \/ Contains(ua_l, w_safari)
            \/ Contains(ua_l, w_ios) \/ Contains(ua_l, w_android)
    THEN IF Ja3Plausible(ja3) THEN MsgDeclaredOk ELSE MsgDeclaredMismatch
    ELSE MsgNeutral

verdict(ua, ja3) ==
    LET ua_l == Lower(OrEmpty(ua)) IN
    IF Contains(ua_l, w_chrome) \/ Contains(ua_l, w_chromium) \/ Contains(ua_l, w_edg)
    THEN IF Ja3Plausible(ja3) THEN MsgBrowserOk ELSE MsgBrowserMismatch
    ELSE IF \/ Contains(ua_l, w_firefox) \/ Contains(ua_l, w_safari)
            \/ Contains(ua_l, w_ios) \/ Contains(ua_l, w_android)
    THEN IF Ja3Plausible(ja3) THEN MsgDeclaredOk ELSE MsgDeclaredMismatch
    ELSE MsgNeutral

---------------------------------------------------------------------------
(* textwrap.shorten(text, width), for text without hyphens: the word        *)
(* splitter then cuts at whitespace only (TextWrapper's defaults:           *)
(* placeholder " [...]", drop_whitespace, break_long_words, max_lines = 1)  *)

Placeholder == <<" ","[",".",".",".","]">>
IsSpace(c) == c \in {" ", "\t", "\n"}
IsBlank(chunk) == \A i \in 1..Len(chunk) : IsSpace(chunk[i])

\* text.strip().split(): the maximal runs of non-whitespace characters, in order
Split(text) ==
    LET starts == {i \in 1..Len(text) :
                      ~IsSpace(text[i]) /\ (i = 1 \/ IsSpace(text[i - 1]))}
        EndOf(i) == CHOOSE j \in i..Len(text) :
                      /\ \A k \in i..j : ~IsSpace(text[k])
                      /\ (j = Len(text) \/ IsSpace(text[j + 1]))
        Nth(n) == CHOOSE i \in starts : Cardinality({j \in starts : j < i}) = n - 1
    IN  [n \in 1..Cardinality(starts) |-> SubSeq(text, Nth(n), EndOf(Nth(n)))]

\* the chunks TextWrapper._split makes of ' '.join(words): word, " ", word, ...
RECURSIVE Chunks(_)
Chunks(words) ==
    IF Len(words) = 0 THEN <<>>
    ELSE IF Len(words) = 1 THEN <<words[1]>>
    ELSE <<words[1], <<" ">>>> \o Chunks(Tail(words))

RECURSIVE Join(_)
Join(chunks) == IF chunks = <<>> THEN <<>> ELSE chunks[1] \o Join(Tail(chunks))

RECURSIVE TotalLen(_)
TotalLen(chunks) == IF chunks = <<>> THEN 0 ELSE Len(chunks[1]) + TotalLen(Tail(chunks))

Front(s) == SubSeq(s, 1, Len(s) - 1)
Last(s) == s[Len(s)]

\* _wrap_chunks: "while chunks: if cur_len + l <= width: cur_line.append(chunks.pop())":
\* how many leading chunks go on the line
RECURSIVE Fit(_, _, _, _)
Fit(chunks, k, cur_len, width) ==
    IF k < Len(chunks) /\ cur_len + Len(chunks[k + 1]) <= width
    THEN Fit(chunks, k + 1, cur_len + Len(chunks[k + 1]), width)
    ELSE k

\* _wrap_chunks, max_lines reached: drop chunks from the end of the line until the
\* placeholder fits after a word; an emptied line becomes placeholder.lstrip()
RECURSIVE WithPlaceholder(_, _)
WithPlaceholder(cur_line, width) ==
    IF cur_line = <<>> THEN Tail(Placeholder)
    ELSE IF ~IsBlank(Last(cur_line)) /\ TotalLen(cur_line) + Len(Placeholder) <= width
         THEN Join(cur_line) \o Placeholder
         ELSE WithPlaceholder(Front(cur_line), width)

\* _wrap_chunks for the one line max_lines = 1 allows
WrapOneLine(chunks, width) ==
    LET k == Fit(chunks, 0, 0, width)
        taken == SubSeq(chunks, 1, k)
        \* _handle_long_word: the next chunk fits on no line, so break it
        long == k < Len(chunks) /\ Len(chunks[k + 1]) > width
        space_left == width - TotalLen(taken)
        line1 == IF long THEN Append(taken, Take(chunks[k + 1], space_left)) ELSE taken
        \* chunks not yet on the line (a broken chunk leaves its rest behind)
        left == Len(chunks) - k
        \* "if the last chunk on this line is all whitespace, drop it"
        cur_line == IF line1 # <<>> /\ IsBlank(Last(line1)) THEN Front(line1) ELSE line1
    IN  IF chunks = <<>> THEN <<>>
        ELSE IF left = 0 /\ TotalLen(cur_line) <= width THEN Join(cur_line)
        ELSE WithPlaceholder(cur_line, width)

\* shorten() cutting the collapsed text at the width, with no placeholder
shorten_HardCut(text, width) == Take(Join(Chunks(Split(text))), width)

shorten(text, width) == WrapOneLine(Chunks(Split(text)), width)

---------------------------------------------------------------------------
(* JSON documents and HTTP responses: what the endpoint can answer *)

Absent == [t |-> "absent"]       \* a key the object does not have
JsonArr == [t |-> "arr"]         \* a JSON value that is neither object, string nor null

\* the dict with the (key, value) pairs whose value is not Absent
Obj(pairs) ==
    LET present == {q \in pairs : q[2] # Absent}
    IN  [t |-> "obj",
         o |-> [k \in {q[1] : q \in present} |-> (CHOOSE q \in present : q[1] = k)[2]]]

Fields == {"ua", "ja3", "alpn", "http_version", "tls_version", "ip"}

\* the response document with leaf f[x] for each field x; a section left without
\* keys is an empty object when keepEmpty, and is itself absent otherwise
DocWith(f, keepEmpty) ==
    LET Section(pairs) ==
            IF ~keepEmpty /\ \A q \in pairs : q[2] = Absent THEN Absent ELSE Obj(pairs)
    IN  Obj({ <<"browser", Section({<<"user_agent", f["ua"]>>})>>,
              <<"tls", Section({<<"ja3", f["ja3"]>>, <<"alpn", f["alpn"]>>,
                                <<"version", f["tls_version"]>>})>>,
              <<"http", Section({<<"version", f["http_version"]>>})>>,
              <<"ip", f["ip"]>> })

\* JSON text of a value, as the server writes it (keys in a fixed order)
KeyOrder == <<"ip", "browser", "user_agent", "tls", "ja3", "alpn", "version", "http">>
Chars(k) ==
    CASE k = "ip" -> <<"i","p">>
      [] k = "browser" -> <<"b","r","o","w","s","e","r">>
      [] k = "user_agent" -> <<"u","s","e","r","_","a","g","e","n","t">>
      [] k = "tls" -> <<"t","l","s">>
      [] k = "ja3" -> <<"j","a","3">>
      [] k = "alpn" -> <<"a","l","p","n">>
      [] k = "version" -> <<"v","e","r","s","i","o","n">>
      [] k = "http" -> <<"h","t","t","p">>
Quoted(s) == <<"\"">> \o s \o <<"\"">>
RECURSIVE Render(_)
RECURSIVE RenderMembers(_, _)
RenderMembers(o, keys) ==
    IF keys = <<>> THEN <<>>
    ELSE Quoted(Chars(keys[1])) \o <<":">> \o Render(o[keys[1]])
         \o (IF Len(keys) > 1 THEN <<",">> ELSE <<>>) \o RenderMembers(o, Tail(keys))
Render(v) ==
    CASE v.t = "null" -> <<"n","u","l","l">>
      [] v.t = "arr" -> <<"[","]">>
      [] v.t = "str" -> Quoted(v.s)
      [] v.t = "obj" ->
            <<"{">> \o RenderMembers(v.o, SelectSeq(KeyOrder, LAMBDA k : k \in DOMAIN v.o))
            \o <<"}">>

\* A response body: its text, and what the JSON decoder (r.json(), json.loads)
\* makes of that text: a value, or Invalid when the text is not JSON
Invalid == [t |-> "invalid"]
JsonBody(doc) == [text |-> Render(doc), json |-> doc]
TextBody(s) == [text |-> s, json |-> Invalid]

ConnFailure == [kind |-> "failure"]
Response(status, body) == [kind |-> "response", status |-> status, body |-> body]

---------------------------------------------------------------------------
(* The two fetchers.  A call either returns a value or raises:              *)
(* [ok |-> TRUE, val |-> v] or [ok |-> FALSE, exc |-> e]                    *)

Return(v) == [ok |-> TRUE, val |-> v]
Raise(e) == [ok |-> FALSE, exc |-> e]

Width == 100         \* shorten(..., width=100)
SnippetLen == 200    \* res.text[:200]

ENDPOINT == "https://tls.peet.ws/api/all"

\* headers["User-Agent"] of fetch_with_requests
HeaderUA ==
    <<"M","o","z","i","l","l","a","/","5",".","0"," ","(","W","i","n","d","o","w","s",
      " ","N","T"," ","1","0",".","0",";"," ","W","i","n","6","4",";"," ","x","6","4",")",
      " ","A","p","p","l","e","W","e","b","K","i","t","/","5","3","7",".","3","6"," ",
      "(","K","H","T","M","L",","," ","l","i","k","e"," ","G","e","c","k","o",")"," ",
      "C","h","r","o","m","e","/","1","2","4",".","0",".","0",".","0"," ",
      "S","a","f","a","r","i","/","5","3","7",".","3","6">>

\* data.get(section).get(leaf): no {} for a section that is not there
Lookup2_NoDefault(data, section, leaf) ==
    IF data.t # "obj" \/ section \notin DOMAIN data.o
    THEN Raise([type |-> "AttributeError"])
    ELSE IF data.o[section].t # "obj" THEN Raise([type |-> "AttributeError"])
    ELSE Return(IF leaf \in DOMAIN data.o[section].o THEN data.o[section].o[leaf] ELSE None)

\* data.get(section, {}).get(leaf)
Lookup2(data, section, leaf) ==
    IF data.t # "obj" THEN Raise([type |-> "AttributeError"])
    ELSE LET sec == IF section \in DOMAIN data.o THEN data.o[section] ELSE Obj({})
         IN  IF sec.t # "obj" THEN Raise([type |-> "AttributeError"])
             ELSE Return(IF leaf \in DOMAIN sec.o THEN sec.o[leaf] ELSE None)

\* data.get(key)
Lookup1(data, key) ==
    IF data.t # "obj" THEN Raise([type |-> "AttributeError"])
    ELSE Return(IF key \in DOMAIN data.o THEN data.o[key] ELSE None)

\* x or y
Or(x, y) == IF x = None \/ x = Str(<<>>) THEN y ELSE x

\* the dict literal both fetchers return; uaFallback is headers["User-Agent"] where the
\* "ua" entry is written "... or headers[...]", and None where it is not
FingerprintRecord(client, data, uaFallback) ==
    LET ua == Lookup2(data, "browser", "user_agent")
        ja3 == Lookup2(data, "tls", "ja3")
        alpn == Lookup2(data, "tls", "alpn")
        http_version == Lookup2(data, "http", "version")
        tls_version == Lookup2(data, "tls", "version")
        ip == Lookup1(data, "ip")
    IN  IF ~ua.ok THEN ua
        ELSE IF ~ja3.ok THEN ja3
        ELSE IF ~alpn.ok THEN alpn
        ELSE IF ~http_version.ok THEN http_version
        ELSE IF ~tls_version.ok THEN tls_version
        ELSE IF ~ip.ok THEN ip
        ELSE Return([client |-> client,
                     ua |-> IF uaFallback = None THEN ua.val ELSE Or(ua.val, uaFallback),
                     ja3 |-> ja3.val,
                     alpn |-> alpn.val,
                     http_version |-> http_version.val,
                     tls_version |-> tls_version.val,
                     ip |-> ip.val,
                     raw |-> data])

\* r.raise_for_status(): requests raises HTTPError for 4xx and 5xx
RaisesForStatus(status) == 400 <= status /\ status < 600

\* fetch_with_requests(), given what requests.get came back with
fetch_with_requests(got) ==
    IF got.kind = "failure" THEN Raise([type |-> "ConnectionError"])
    ELSE IF RaisesForStatus(got.status)
    THEN Raise([type |-> "HTTPError", status |-> got.status])
    ELSE IF got.body.json = Invalid THEN Raise([type |-> "JSONDecodeError"])
    ELSE FingerprintRecord("requests/OpenSSL", got.body.json, Str(HeaderUA))

\* if res.status_code != 200
NobleRejects(status) == status # 200

\* the emulating fetcher falling back on the sent header like the conventional one
nobletls_after_get_WithFallback(got) ==
    IF got.kind = "failure" THEN Raise([type |-> "ConnectionError"])
    ELSE IF NobleRejects(got.status)
    THEN Raise([type |-> "RuntimeError", status |-> got.status,
                body |-> Take(got.body.text, SnippetLen)])
    ELSE IF got.body.json = Invalid THEN Raise([type |-> "JSONDecodeError"])
    ELSE FingerprintRecord("noble-tls (Chrome 124)", got.body.json, Str(HeaderUA))

\* fetch_with_nobletls() from "res = await session.get(...)" on, given what it came back with
nobletls_after_get(got) ==
    IF got.kind = "failure" THEN Raise([type |-> "ConnectionError"])
    ELSE IF NobleRejects(got.status)
    THEN Raise([type |-> "RuntimeError", status |-> got.status,
                body |-> Take(got.body.text, SnippetLen)])
    ELSE IF got.body.json = Invalid THEN Raise([type |-> "JSONDecodeError"])
    ELSE FingerprintRecord("noble-tls (Chrome 124)", got.body.json, None)

\* the guard left out
NobleUnavailable_Never(mod) == FALSE

\* if noble_tls is None
NobleUnavailable(mod) == mod = "None"

\* the refresh's failure swallowed
AwaitRefresh_Swallow(outcome) == Return(None)

\* await noble_tls.update_if_necessary(): the await hands on what the refresh raised
AwaitRefresh(outcome) ==
    IF outcome.kind = "ok" THEN Return(None) ELSE Raise([type |-> "RefreshError"])

\* raise RuntimeError("Le module noble_tls n'est pas disponible. ...")
NobleMissing == [type |-> "RuntimeError", msg |-> "Le module noble_tls n'est pas disponible"]

---------------------------------------------------------------------------
(* main(): printing *)

Msg(m) == [t |-> "msg", m |-> m]
Line(label, v) == [label |-> label, value |-> v]

HeaderA == Line("", Msg("=== A) Requete avec requests (pile TLS Python/OpenSSL) ==="))
HeaderB == Line("", Msg("=== B) Requete avec noble-tls (imitation navigateur) ==="))
TipLine == Line("", Msg("Astuce : si A montre un JA3 typique d'OpenSSL et B un JA3 'navigateur', ..."))

\* p(s)
p(s) == IF s # None THEN s ELSE Str(<<EmDash>>)

\* the eight print calls of a try block
ReportLines(rec) ==
    << Line("Client", Msg(rec.client)),
       Line("IP", p(rec.ip)),
       Line("TLS version", p(rec.tls_version)),
       Line("HTTP version", p(rec.http_version)),
       Line("ALPN", p(rec.alpn)),
       Line("User-Agent", Str(shorten(p(rec.ua).s, Width))),
       Line("JA3", p(rec.ja3)),
       Line("Diagnostic", Msg(verdict(rec.ua, rec.ja3))) >>

\* except requests.RequestException as e
CaughtByExcept_RequestsOnly(e) == e.type \in {"ConnectionError", "HTTPError"}

\* except Exception as e: catches all but the exceptions deriving from BaseException only
CaughtByExcept(e) == e.type \notin {"KeyboardInterrupt", "SystemExit", "GeneratorExit"}

ErrorLine(prefix, e) == [label |-> prefix, value |-> e]

---------------------------------------------------------------------------
(* Inputs: the answers the network gives *)

s_curl    == <<"c","u","r","l","/","8",".","0">>
s_mozilla == <<"M","o","z","i","l","l","a","/","5",".","0">>
s_ja3     == <<"7","7","1",",","4","8","6","5","-","4","8","6","6",",","0","-","2","3">>
s_h2      == <<"h","2">>
s_tls13   == <<"T","L","S"," ","1",".","3">>
s_ip      == <<"1",".","2",".","3",".","4">>
s_html    == <<"<","h","t","m","l",">">>
s_forbidden == <<"F","o","r","b","i","d","d","e","n">>

\* user agents around the display width: over == how far the text goes beyond Width
LongTail(over, tail) ==
    s_mozilla \o <<" ">> \o Rep("x", Width + over - Len(s_mozilla) - 2 - Len(tail))
    \o <<" ">> \o tail
LongWord(over) == Rep("x", Width + over)
LongBlank(over) == <<"a">> \o Rep(" ", Width + over) \o Capitalized(w_edg)
LongLead(over) == <<" ">> \o Rep("x", Width + over - 1)

MainUAs ==
    { s_curl, <<>>, s_mozilla \o <<" ">> \o Capitalized(w_chrome) \o <<" ">> \o Capitalized(w_safari),
      Capitalized(w_firefox) }
    \cup { LongTail(over, tail) : over \in 0..MaxPad, tail \in {Capitalized(w_chrome), s_curl} }
    \cup { LongWord(over) : over \in 0..MaxPad }
    \cup { LongBlank(over) : over \in 0..MaxPad }
    \cup { LongLead(over) : over \in 0..MaxPad }

FullLeaves ==
    [x \in Fields |->
        CASE x = "ua" -> Str(Capitalized(w_firefox))
          [] x = "ja3" -> Str(s_ja3)
          [] x = "alpn" -> Str(s_h2)
          [] x = "http_version" -> Str(s_h2)
          [] x = "tls_version" -> Str(s_tls13)
          [] x = "ip" -> Str(s_ip)]
FullDoc == DocWith(FullLeaves, TRUE)

\* every subset of the six fields missing: the key absent (the emptied section kept
\* or absent too), or the key present with null
MissingDocs ==
    { DocWith([x \in Fields |-> IF x \in S THEN how[1] ELSE FullLeaves[x]], how[2]) :
        S \in SUBSET Fields, how \in {<<Absent, TRUE>>, <<Absent, FALSE>>, <<None, TRUE>>} }

UADocs ==
    { DocWith([FullLeaves EXCEPT !["ua"] = Str(u), !["ja3"] = j], TRUE) :
        u \in MainUAs, j \in {Str(s_ja3), Str(<<>>)} }

\* JSON that is not an object of objects
NullSectionDoc == Obj({<<"tls", None>>, <<"ip", Str(s_ip)>>})
MalformedDocs == { JsonArr, None, NullSectionDoc, Obj({<<"browser", JsonArr>>}) }

OtherStatuses == {204, 304, 404, 503}
ErrorBodies ==
    { JsonBody(FullDoc), JsonBody(Obj({})), TextBody(<<>>), TextBody(s_forbidden) }
    \cup { TextBody(Rep("x", SnippetLen - 1 + n)) : n \in 0..(MaxPad + 1) }

Outcomes ==
    {ConnFailure}
    \cup { Response(200, JsonBody(d)) : d \in MissingDocs \cup UADocs \cup MalformedDocs }
    \cup { Response(200, TextBody(s_html)) }
    \cup { Response(st, body) : st \in OtherStatuses, body \in ErrorBodies }

\* one outcome of each kind; a run pairs any outcome of one GET with one of these
\* for the other GET
CoreOutcomes ==
    { ConnFailure,
      Response(200, JsonBody(FullDoc)),
      Response(200, JsonBody(Obj({}))),
      Response(200, TextBody(s_html)),
      Response(200, JsonBody(NullSectionDoc)),
      Response(404, TextBody(s_forbidden)),
      Response(304, JsonBody(FullDoc)) }

NoOutcome == [kind |-> "none"]

---------------------------------------------------------------------------
(* main() as a state machine: one step per stretch of code between network waits *)

Ops == {"conv_get", "refresh", "emul_get"}

Init ==
    /\ pc = "start"
    /\ noble_tls \in {"module", "None"}
    /\ inflight = {}
    /\ attempts = [op \in Ops |-> 0]
    /\ finished = <<>>
    /\ outA = NoOutcome /\ outR = NoOutcome /\ outB = NoOutcome
    /\ a = None /\ b = None
    /\ stdout = <<>> /\ stderr = <<>>
    /\ exitCode = -1
    /\ vpc = "off" /\ vua = None /\ vja3 = None /\ vres = ""

\* the rest of main() after the second try block: the tip line, then normal exit
EndMain(out, err) ==
    /\ stdout' = Append(out, TipLine)
    /\ stderr' = err
    /\ exitCode' = 0
    /\ pc' = "done"

\* an exception no except clause caught: traceback, exit status 1
Crash(out, err, e) ==
    /\ stdout' = out
    /\ stderr' = Append(err, ErrorLine("Traceback", e))
    /\ exitCode' = 1
    /\ pc' = "done"

\* a try block of main() once its fetch has returned or raised
TryBlock(res, prefix, out, err) ==
    IF res.ok THEN [out |-> out \o ReportLines(res.val), err |-> err, crashed |-> FALSE]
    ELSE IF CaughtByExcept(res.exc)
    THEN [out |-> out, err |-> Append(err, ErrorLine(prefix, res.exc)), crashed |-> FALSE]
    ELSE [out |-> out, err |-> err, crashed |-> TRUE]

\* print header A; fetch_with_requests() calls requests.get
StartA ==
    /\ pc = "start"
    /\ stdout' = Append(stdout, HeaderA)
    /\ inflight' = inflight \cup {"conv_get"}
    /\ attempts' = [attempts EXCEPT !["conv_get"] = @ + 1]
    /\ pc' = "A_get"
    /\ UNCHANGED <<noble_tls, finished, outA, outR, outB, a, b, stderr, exitCode>>
    /\ UNCHANGED verdictVars

\* requests.get returns or raises; the first try block ends; header B;
\* fetch_with_nobletls() runs to its first await
FinishA ==
    /\ pc = "A_get"
    /\ \E got \in Outcomes :
        LET res == fetch_with_requests(got)
            t == TryBlock(res, "Erreur requests:", stdout, stderr)
            out == Append(t.out, HeaderB)
        IN  /\ outA' = got
            /\ a' = IF res.ok THEN res.val ELSE a
            /\ finished' = Append(finished, "conv_get")
            /\ IF t.crashed
               THEN /\ Crash(t.out, t.err, res.exc)
                    /\ inflight' = inflight \ {"conv_get"}
                    /\ UNCHANGED attempts
               ELSE IF NobleUnavailable(noble_tls)
               THEN LET u == TryBlock(Raise(NobleMissing), "Erreur noble-tls:", out, t.err)
                    IN  /\ IF u.crashed THEN Crash(u.out, u.err, NobleMissing)
                                        ELSE EndMain(u.out, u.err)
                        /\ inflight' = inflight \ {"conv_get"}
                        /\ UNCHANGED attempts
               ELSE /\ stdout' = out
                    /\ stderr' = t.err
                    /\ inflight' = (inflight \ {"conv_get"}) \cup {"refresh"}
                    /\ attempts' = [attempts EXCEPT !["refresh"] = @ + 1]
                    /\ pc' = "B_refresh"
                    /\ UNCHANGED exitCode
    /\ UNCHANGED <<noble_tls, outR, outB, b>>
    /\ UNCHANGED verdictVars

\* await noble_tls.update_if_necessary() returns or raises; on return the session is
\* made and session.get is awaited
FinishRefresh ==
    /\ pc = "B_refresh"
    /\ \E got \in {[kind |-> "ok"], ConnFailure} :
        LET res == AwaitRefresh(got) IN
        /\ outR' = got
        /\ finished' = Append(finished, "refresh")
        /\ IF res.ok
           THEN /\ inflight' = (inflight \ {"refresh"}) \cup {"emul_get"}
                /\ attempts' = [attempts EXCEPT !["emul_get"] = @ + 1]
                /\ pc' = "B_get"
                /\ UNCHANGED <<stdout, stderr, exitCode>>
           ELSE LET u == TryBlock(res, "Erreur noble-tls:", stdout, stderr)
                IN  /\ IF u.crashed THEN Crash(u.out, u.err, res.exc)
                                    ELSE EndMain(u.out, u.err)
                    /\ inflight' = inflight \ {"refresh"}
                    /\ UNCHANGED attempts
    /\ UNCHANGED <<noble_tls, outA, outB, a, b>>
    /\ UNCHANGED verdictVars

\* what the emulating GET may answer in a run: anything when the conventional GET's
\* answer was a core one, a core one otherwise
OutcomesAfter(gotA) == IF gotA \in CoreOutcomes THEN Outcomes ELSE CoreOutcomes

\* session.get returns or raises; the second try block ends; the tip line
FinishB ==
    /\ pc = "B_get"
    /\ \E got \in OutcomesAfter(outA) :
        LET res == nobletls_after_get(got)
            u == TryBlock(res, "Erreur noble-tls:", stdout, stderr)
        IN  /\ outB' = got
            /\ b' = IF res.ok THEN res.val ELSE b
            /\ inflight' = inflight \ {"emul_get"}
            /\ finished' = Append(finished, "emul_get")
            /\ IF u.crashed THEN Crash(u.out, u.err, res.exc) ELSE EndMain(u.out, u.err)
    /\ UNCHANGED <<noble_tls, attempts, outA, outR, a>>
    /\ UNCHANGED verdictVars

Next == StartA \/ FinishA \/ FinishRefresh \/ FinishB

Spec == Init /\ [][Next]_vars

\* every network wait ends (a response, an error or a timeout), and the code in
\* between runs to its next wait
FairSpec == Spec /\ WF_vars(Next)

---------------------------------------------------------------------------
(* verdict() on its own: the arguments are drawn, then the function is applied *)

Keywords == {w_chrome, w_chromium, w_edg, w_firefox, w_safari, w_ios, w_android}
FamilyAWords == {w_chrome, w_chromium, w_edg}
FamilyBWords == {w_firefox, w_safari, w_ios, w_android}

\* each keyword, each keyword short of its last letter, and an unrelated word
VerdictWords == Keywords \cup {Front(w) : w \in Keywords} \cup {s_curl}

VerdictUAs ==
    { None, Str(<<>>) }
    \cup { Str(Rep("x", n) \o c \o Rep("/", m)) :
             n \in 0..MaxPad, m \in 0..MaxPad,
             c \in UNION { {w, Capitalized(w), Upper(w)} : w \in VerdictWords } }
    \cup { Str(x \o <<" ">> \o Capitalized(y)) : x \in FamilyAWords, y \in FamilyBWords }
    \cup { Str(Capitalized(y) \o <<" ">> \o x) : x \in FamilyAWords, y \in FamilyBWords }

VerdictJa3s ==
    { None, Str(<<>>), Str(s_ja3), Str(<<"a","b","c">>), Str(<<"7",",","7">>),
      Str(<<"7","-","7">>), Str(<<"-",",">>) }

VerdictInit ==
    /\ vpc = "input"
    /\ vua \in VerdictUAs
    /\ vja3 \in VerdictJa3s
    /\ vres = ""
    /\ pc = "off"
    /\ noble_tls = "module"
    /\ inflight = {}
    /\ attempts = [op \in Ops |-> 0]
    /\ finished = <<>>
    /\ outA = NoOutcome /\ outR = NoOutcome /\ outB = NoOutcome
    /\ a = None /\ b = None
    /\ stdout = <<>> /\ stderr = <<>>
    /\ exitCode = -1

ApplyVerdict ==
    /\ vpc = "input"
    /\ vres' = verdict(vua, vja3)
    /\ vpc' = "applied"
    /\ UNCHANGED <<vua, vja3>>
    /\ UNCHANGED mainVars

VerdictNext == ApplyVerdict

VerdictSpec == VerdictInit /\ [][VerdictNext]_vars

---------------------------------------------------------------------------
(* Reading a finished run *)

Done == pc = "done"

IndexOf(seq, x) == CHOOSE i \in 1..Len(seq) : seq[i] = x
Has(seq, x) == \E i \in 1..Len(seq) : seq[i] = x

\* standard output of branch A: after header A, up to header B
AOut == IF Has(stdout, HeaderB) THEN SubSeq(stdout, 2, IndexOf(stdout, HeaderB) - 1)
        ELSE SubSeq(stdout, 2, Len(stdout))
\* standard output of branch B: after header B, up to the tip line
BOut == IF ~Has(stdout, HeaderB) THEN <<>>
        ELSE SelectSeq(SubSeq(stdout, IndexOf(stdout, HeaderB) + 1, Len(stdout)),
                       LAMBDA l : l # TipLine)
AErr == SelectSeq(stderr, LAMBDA l : l.label = "Erreur requests:")
BErr == SelectSeq(stderr, LAMBDA l : l.label = "Erreur noble-tls:")

ValueOf(lines, label) == (CHOOSE l \in {lines[i] : i \in 1..Len(lines)} : l.label = label).value
FieldLabels == <<"Client", "IP", "TLS version", "HTTP version", "ALPN", "User-Agent",
                 "JA3", "Diagnostic">>
\* the seven labeled fields and the verdict, in the order of the report
IsFullReport(lines) ==
    /\ Len(lines) = 8
    /\ \A i \in 1..8 : lines[i].label = FieldLabels[i]
HasFieldLines(lines) == \E i \in 1..Len(lines) : lines[i].label # ""

Unknown == Str(<<EmDash>>)
Ellipsis == <<"[",".",".",".","]">>
EndsWith(s, suffix) ==
    Len(s) >= Len(suffix) /\ SubSeq(s, Len(s) - Len(suffix) + 1, Len(s)) = suffix

\* what answer a GET got, read off the answer itself
IsResponse(got) == got.kind = "response"
Is2xx(st) == 200 <= st /\ st < 300
IsJson(got) == IsResponse(got) /\ got.body.json # Invalid
\* a JSON object whose sections, where present, are objects
WellFormed(doc) ==
    /\ doc.t = "obj"
    /\ \A k \in DOMAIN doc.o \cap {"browser", "tls", "http"} : doc.o[k].t = "obj"
PathOf(field) ==
    CASE field = "ua" -> <<"browser", "user_agent">>
      [] field = "ja3" -> <<"tls", "ja3">>
      [] field = "alpn" -> <<"tls", "alpn">>
      [] field = "http_version" -> <<"http", "version">>
      [] field = "tls_version" -> <<"tls", "version">>
      [] field = "ip" -> <<"ip">>
LabelOf(field) ==
    CASE field = "ua" -> "User-Agent"
      [] field = "ja3" -> "JA3"
      [] field = "alpn" -> "ALPN"
      [] field = "http_version" -> "HTTP version"
      [] field = "tls_version" -> "TLS version"
      [] field = "ip" -> "IP"
\* the value a well-formed document carries for a field: Absent, None or a str
Carried(doc, field) ==
    LET path == PathOf(field) IN
    IF path[1] \notin DOMAIN doc.o THEN Absent
    ELSE IF Len(path) = 1 THEN doc.o[path[1]]
    ELSE IF path[2] \notin DOMAIN doc.o[path[1]].o THEN Absent
    ELSE doc.o[path[1]].o[path[2]]
Missing(doc, field) == Carried(doc, field) \in {Absent, None}

\* branch by branch: the answer, the record, the output
Branches == {"A", "B"}
GotOf(br) == IF br = "A" THEN outA ELSE outB
RecOf(br) == IF br = "A" THEN a ELSE b
OutOf(br) == IF br = "A" THEN AOut ELSE BOut
ErrOf(br) == IF br = "A" THEN AErr ELSE BErr
\* the answer is one the branch's fetcher accepts: a JSON body under a status it lets pass
Accepted(br) ==
    /\ IsJson(GotOf(br))
    /\ IF br = "A" THEN Is2xx(GotOf(br).status) ELSE GotOf(br).status = 200

---------------------------------------------------------------------------
(* Claims about verdict(), under VerdictSpec *)

\* the lowercased user agent, an absent one taken as empty
LoweredUA(ua) == IF ua.t = "str" THEN Lower(ua.s) ELSE <<>>
MentionsAny(ua, words) == \E w \in words : Contains(LoweredUA(ua), w)
\* present, non-empty, with a comma and with a hyphen
CommaAndHyphen(ja3) ==
    /\ ja3.t = "str"
    /\ \E i \in 1..Len(ja3.s) : ja3.s[i] = ","
    /\ \E i \in 1..Len(ja3.s) : ja3.s[i] = "-"

\* C5: a user agent naming chrome, chromium or edg is family A, even when it also
\* names a family B word; otherwise one naming firefox, safari, ios or android is
\* family B; either family gets its "likely consistent" message exactly when the JA3
\* is present with a comma and a hyphen, and its "possible mismatch" warning otherwise
C5_FamilyVerdicts ==
    vpc = "applied" =>
        /\ MentionsAny(vua, FamilyAWords) =>
              vres = IF CommaAndHyphen(vja3) THEN MsgBrowserOk ELSE MsgBrowserMismatch
        /\ (~MentionsAny(vua, FamilyAWords) /\ MentionsAny(vua, FamilyBWords)) =>
              vres = IF CommaAndHyphen(vja3) THEN MsgDeclaredOk ELSE MsgDeclaredMismatch

\* C5 witness: a user agent naming both Safari and chrome, with a plausible JA3, was
\* judged as family A
C5_Witness ==
    /\ vpc = "applied"
    /\ vua = Str(Capitalized(w_safari) \o <<" ">> \o w_chrome)
    /\ vja3 = Str(s_ja3)
    /\ vres = MsgBrowserOk

\* C6: the neutral message is returned exactly for the user agents (absent and empty
\* ones included) that name none of the seven words, whatever the JA3
C6_NeutralVerdict ==
    vpc = "applied" => (vres = MsgNeutral <=> ~MentionsAny(vua, Keywords))

\* C6 witness: an absent user agent with a plausible JA3 was judged neutral
C6_Witness ==
    /\ vpc = "applied"
    /\ vua = None
    /\ vja3 = Str(s_ja3)
    /\ vres = MsgNeutral

---------------------------------------------------------------------------
(* Claims about main(), under Spec (C2 under FairSpec) *)

\* the three ways the conventional fetch fails that C1 names
ConvConnectionFailure == outA.kind = "failure"
ConvHttpError == IsResponse(outA) /\ 400 <= outA.status /\ outA.status <= 599
ConvUnparseable == IsResponse(outA) /\ ~ConvHttpError /\ outA.body.json = Invalid

\* C1: after a connection failure, an HTTP-error status or an unparseable body of the
\* conventional fetch, the failure is reported, the emulating fetch is still invoked,
\* and when it returns a record the eight lines printed for it are those of that
\* record alone, with no error line
C1_FailureIsolated ==
    (Done /\ (ConvConnectionFailure \/ ConvHttpError \/ ConvUnparseable)) =>
        /\ a = None /\ AOut = <<>> /\ Len(AErr) = 1
        /\ Has(stdout, HeaderB)
        /\ IF noble_tls = "module" THEN attempts["refresh"] = 1
                                   ELSE BErr = <<ErrorLine("Erreur noble-tls:", NobleMissing)>>
        /\ b # None =>
              /\ b = nobletls_after_get(outB).val
              /\ IsFullReport(BOut)
              /\ BOut = ReportLines(b)
              /\ BErr = <<>>

\* C1 witness: the conventional GET got a 404 and the emulating branch printed its report
C1_Witness ==
    /\ Done
    /\ outA = Response(404, TextBody(s_forbidden))
    /\ b # None
    /\ IsFullReport(BOut)

\* C2: whatever the two fetches come back with, main() ends, with the tip line last
\* on standard output and exit code 0
C2_EndsWithTip ==
    <>[](Done /\ exitCode = 0 /\ stdout # <<>> /\ stdout[Len(stdout)] = TipLine)

\* C2 witness: both fetches failed and the run ended with exit code 0
C2_Witness ==
    /\ Done
    /\ outA # NoOutcome /\ a = None
    /\ outB # NoOutcome /\ b = None
    /\ exitCode = 0
    /\ stdout[Len(stdout)] = TipLine

\* C3: with noble_tls None, neither the profile refresh nor the emulating GET is ever
\* issued, branch B writes the one "module unavailable" error line and no field line,
\* and what branch A writes is fixed by the conventional GET's answer alone
C3_ModuleUnavailable ==
    /\ noble_tls = "None" =>
          /\ attempts["refresh"] = 0 /\ attempts["emul_get"] = 0
          /\ inflight \subseteq {"conv_get"}
          /\ Done => /\ BErr = <<ErrorLine("Erreur noble-tls:", NobleMissing)>>
                     /\ BOut = <<>>
                     /\ b = None
    /\ Done =>
          LET res == fetch_with_requests(outA) IN
          /\ AOut = IF res.ok THEN ReportLines(res.val) ELSE <<>>
          /\ AErr = IF res.ok THEN <<>> ELSE <<ErrorLine("Erreur requests:", res.exc)>>

\* C3 witness: the module was unavailable, branch A printed a report, branch B one error
C3_Witness ==
    /\ Done
    /\ noble_tls = "None"
    /\ a # None /\ IsFullReport(AOut)
    /\ Len(BErr) = 1

CarriedUA(br) == Carried(GotOf(br).body.json, "ua")
SourceUA(br) ==
    IF br = "A" /\ CarriedUA(br) \in {Absent, None, Str(<<>>)} THEN Str(HeaderUA)
    ELSE IF CarriedUA(br) = Absent THEN None
    ELSE CarriedUA(br)
PrintedUA(br) == ValueOf(OutOf(br), "User-Agent").s
\* leading and trailing whitespace stripped, inner runs of whitespace made one space
Collapsed(text) == Join(Chunks(Split(text)))

\* C7 as claimed: a stored user agent of more than 100 characters is printed in at most
\* 100 characters ending with the ellipsis marker, the record keeps the full string,
\* and the verdict printed is that of the full string
C7_AsClaimed ==
    Done => \A br \in Branches :
        (RecOf(br) # None /\ RecOf(br).ua # None /\ Len(RecOf(br).ua.s) > Width) =>
            /\ Len(PrintedUA(br)) <= Width
            /\ EndsWith(PrintedUA(br), Ellipsis)
            /\ RecOf(br).ua = SourceUA(br)
            /\ ValueOf(OutOf(br), "Diagnostic") = Msg(verdict(SourceUA(br), RecOf(br).ja3))

\* C7 amended: a user agent whose whitespace-collapsed form has more than 100 characters
\* is printed in at most 100 characters ending with the ellipsis marker; one of more
\* than 100 characters whose collapsed form fits is printed collapsed, without marker;
\* in both cases the record keeps the full string and the verdict is that of the full
\* string
C7_Truncation ==
    Done => \A br \in Branches :
        (RecOf(br) # None /\ RecOf(br).ua # None /\ Len(RecOf(br).ua.s) > Width) =>
            /\ Len(PrintedUA(br)) <= Width
            /\ IF Len(Collapsed(RecOf(br).ua.s)) > Width
               THEN EndsWith(PrintedUA(br), Ellipsis)
               ELSE PrintedUA(br) = Collapsed(RecOf(br).ua.s)
            /\ RecOf(br).ua = SourceUA(br)
            /\ ValueOf(OutOf(br), "Diagnostic") = Msg(verdict(SourceUA(br), RecOf(br).ja3))

\* C7 witness: branch B stored a 101-character user agent whose "Chrome" is cut off in
\* print, and judged it as a Chrome user agent all the same
C7_Witness ==
    /\ Done
    /\ b # None
    /\ b.ua = Str(LongTail(1, Capitalized(w_chrome)))
    /\ EndsWith(PrintedUA("B"), Ellipsis)
    /\ ~Contains(Lower(PrintedUA("B")), w_chrome)
    /\ ValueOf(BOut, "Diagnostic") \in {Msg(MsgBrowserOk), Msg(MsgBrowserMismatch)}

\* C8: at most one network operation is in flight, each is started at most once, they
\* complete in the order conventional GET, profile refresh, emulating GET, each having
\* completed before the next is started, and after a failed refresh the emulating GET
\* is never started
C8_Sequential ==
    /\ Cardinality(inflight) <= 1
    /\ \A op \in Ops : attempts[op] <= 1
    /\ \A op \in inflight : attempts[op] = 1 /\ ~Has(finished, op)
    /\ finished = SubSeq(<<"conv_get", "refresh", "emul_get">>, 1, Len(finished))
    /\ attempts["refresh"] = 1 => Has(finished, "conv_get")
    /\ attempts["emul_get"] = 1 => (Has(finished, "refresh") /\ outR = [kind |-> "ok"])
    /\ outR = ConnFailure => attempts["emul_get"] = 0

\* C8 witness: the refresh failed and the run ended without an emulating GET
C8_Witness ==
    /\ Done
    /\ outR = ConnFailure
    /\ attempts = [op \in Ops |-> IF op = "emul_get" THEN 0 ELSE 1]
    /\ finished = <<"conv_get", "refresh">>

\* C9 as claimed: an answer with a non-2xx status (conventional) or a status other than
\* 200 (emulating) yields no record and no field line, and one error line: the
\* HTTP error, respectively the status with at most the first 200 characters of the body
C9_AsClaimed ==
    Done =>
        /\ (IsResponse(outA) /\ ~Is2xx(outA.status)) =>
              /\ a = None
              /\ ~HasFieldLines(AOut)
              /\ AErr = <<ErrorLine("Erreur requests:",
                                    [type |-> "HTTPError", status |-> outA.status])>>
        /\ (IsResponse(outB) /\ outB.status # 200) =>
              /\ b = None
              /\ ~HasFieldLines(BOut)
              /\ Len(BErr) = 1
              /\ BErr[1].value.type = "RuntimeError"
              /\ BErr[1].value.status = outB.status
              /\ Len(BErr[1].value.body) <= SnippetLen
              /\ BErr[1].value.body = SubSeq(outB.body.text, 1, Len(BErr[1].value.body))
              /\ Len(outB.body.text) >= SnippetLen => Len(BErr[1].value.body) = SnippetLen

\* C10 as claimed: when the answer carries no user agent, branch A's record holds the
\* sent header (verdict not neutral) and branch B's holds None (printed as the unknown
\* marker, verdict neutral); when it carries one, both records hold exactly that value
C10_AsClaimed ==
    Done => \A br \in Branches :
        RecOf(br) # None =>
            /\ RecOf(br).ua = IF ~Missing(GotOf(br).body.json, "ua") THEN CarriedUA(br)
                              ELSE IF br = "A" THEN Str(HeaderUA) ELSE None
            /\ br = "A" => RecOf(br).ua # None
            /\ Missing(GotOf(br).body.json, "ua") =>
                  IF br = "A"
                  THEN ValueOf(AOut, "Diagnostic") # Msg(MsgNeutral)
                  ELSE /\ ValueOf(BOut, "User-Agent") = Unknown
                       /\ ValueOf(BOut, "Diagnostic") = Msg(MsgNeutral)

\* C10 amended: as claimed for an answer carrying no user agent or a non-empty one; an
\* empty user agent is replaced by the sent header in branch A's record and kept,
\* empty, in branch B's
C10_UserAgentSource ==
    Done => \A br \in Branches :
        RecOf(br) # None =>
            /\ RecOf(br).ua = IF Missing(GotOf(br).body.json, "ua")
                              THEN (IF br = "A" THEN Str(HeaderUA) ELSE None)
                              ELSE IF CarriedUA(br) = Str(<<>>)
                              THEN (IF br = "A" THEN Str(HeaderUA) ELSE Str(<<>>))
                              ELSE CarriedUA(br)
            /\ br = "A" => RecOf(br).ua # None
            /\ Missing(GotOf(br).body.json, "ua") =>
                  IF br = "A"
                  THEN ValueOf(AOut, "Diagnostic") # Msg(MsgNeutral)
                  ELSE /\ ValueOf(BOut, "User-Agent") = Unknown
                       /\ ValueOf(BOut, "Diagnostic") = Msg(MsgNeutral)

\* C10 witness: both answers carried no user agent; branch A stored the sent header,
\* branch B stored None
C10_Witness ==
    /\ Done
    /\ a # None /\ b # None
    /\ Missing(outA.body.json, "ua") /\ Missing(outB.body.json, "ua")
    /\ a.ua = Str(HeaderUA)
    /\ b.ua = None
    /\ ValueOf(BOut, "Diagnostic") = Msg(MsgNeutral)

====
